---------------------------- MODULE Spec2Model ----------------------------
(***************************************************************************)
(* Model of the EarthMC API client (src/src/index.ts): the sliding-window  *)
(* rate limiter EarthMC.rateLimit, the request executor EarthMC.get with   *)
(* its 504 retry, the constructor and the URL each endpoint method builds. *)
(*                                                                         *)
(* Scheduling is JavaScript's: one event loop, run to completion.  A step  *)
(* of the model is the code a task runs between two suspension points      *)
(* (the timer of line 97, the fetch of line 61).  Time is the value of     *)
(* Date.now() in milliseconds.  A timer fires at its due time, in any      *)
(* order with the other steps that are possible at that instant.           *)
(***************************************************************************)
EXTENDS Integers, Sequences, FiniteSets, TLC

(* ------------------------------ bounds -------------------------------- *)
NumTasks == 2
MaxQuota == 2
MaxWindow == 3
MaxTime == 4
MaxRetries == 3
MaxCalls == 1
LiveRetries == 1

(* ------------------------- program constants -------------------------- *)
BASE_URL == "https://api.earthmc.net/v3"
DefaultServer == "aurora"
GatewayTimeout == 504

Tasks == 1..NumTasks
Absent == "undefined"
ServerOptions == {Absent, "aurora", "nova"}
Statuses == {200, 404, 500, 504}
TransportFailures == {"ECONNREFUSED"}
\* the strings Math.random().toPrecision(2) can yield, two of them
RandomDraws == {"0.12", "0.57"}

Methods ==
    {"discord", "location", "nations", "nation", "towns", "town", "nearbyTown",
     "nearbyCoord", "players", "player", "quarters", "quarter", "server"}

\* the path segment after {server} of the URL a method builds
Resource(m) ==
    CASE m = "discord" -> "discord"
      [] m = "location" -> "location"
      [] m \in {"nations", "nation"} -> "nations"
      [] m \in {"towns", "town", "nearbyTown", "nearbyCoord"} -> "towns"
      [] m \in {"players", "player"} -> "players"
      [] m \in {"quarters", "quarter"} -> "quarters"
      [] OTHER -> ""

\* the names of the query parameters a method appends, in order
QueryNames(m) ==
    CASE m \in {"discord", "location", "nation", "town", "player", "quarter"} -> <<"query">>
      [] m = "nearbyTown" -> <<"town", "radius">>
      [] m = "nearbyCoord" -> <<"x", "z", "radius">>
      [] OTHER -> <<>>

VARIABLES
    options,               \* the constructor's argument
    serverStr,             \* this.serverStr
    maxRequestsPerWindow,  \* this.maxRequestsPerWindow
    windowSize,            \* this.windowSize
    requestQueue,          \* this.requestQueue
    clock,                 \* Date.now()
    callers,               \* the tasks that call the session
    methods,               \* the endpoint methods they call
    statuses,              \* the response statuses the server answers with
    draws,                 \* the values Math.random().toPrecision(2) takes
    pc,                    \* where each task is
    now,                   \* rateLimit's local `now`
    timeToWait,            \* rateLimit's local `timeToWait`
    retryCount,            \* get's parameter of the running attempt
    budget,                \* get's parameter of the logical call
    url,                   \* the URL object of the logical call
    calls,                 \* logical calls a task has started
    requests,              \* the URLs fetched by the logical call, in order
    outcomes,              \* what each of these fetches yielded
    result,                \* what the logical call gave its caller
    adm,                   \* each task's latest rateLimit call, as observed
    admitted               \* the instants at which rateLimit calls completed

vars ==
    <<options, serverStr, maxRequestsPerWindow, windowSize, requestQueue, clock,
      callers, methods, statuses, draws, pc, now, timeToWait, retryCount, budget, url, calls,
      requests, outcomes, result, adm, admitted>>

(* ---------------------------- constructor ----------------------------- *)
\* lines 44-48: the fields of a session constructed with `o`.  The sessions
\* modelled are given maxRequestsPerWindow and windowSize, so the `??` of
\* lines 46-47 yields the option; options.server is never read.
constructor(o) ==
    [serverStr |-> DefaultServer,
     maxRequestsPerWindow |-> o.maxRequestsPerWindow,
     windowSize |-> o.windowSize]

\* new URL(`${BASE_URL}/${serverStr}/<resource>`) and the method's parameters
EndpointUrl(m) ==
    [base |-> BASE_URL,
     server |-> serverStr,
     resource |-> Resource(m),
     params |-> [i \in 1..Len(QueryNames(m)) |->
                    [name |-> QueryNames(m)[i], value |-> "arg"]]]

(* ---------------------------- rate limiter ---------------------------- *)
\* line 90 with `>=`: a record exactly windowSize old survives
KeepsBoundary(req, n) == req.timestamp + windowSize >= n

\* line 90: the filter's predicate
Keeps(req, n) == req.timestamp + windowSize > n

\* line 90: requestQueue.filter(...)
filter(q, n) ==
    LET test(req) == Keeps(req, n) IN SelectSeq(q, test)

\* line 93 with `>`: one request over the quota passes
SuspendsAbove(q) == Len(q) > maxRequestsPerWindow

\* line 93: the quota check
Suspends(q) == Len(q) >= maxRequestsPerWindow

\* line 94 without `- now`: the absolute due time taken as the delay
TimeToWaitAbsolute(q, n) == q[1].timestamp + windowSize

\* line 94
TimeToWait(q, n) == q[1].timestamp + windowSize - n

\* line 101 left out: the request is not recorded
pushNone(q, n) == q

\* line 101: the record pushed by a call whose `now` is n
push(q, n) == Append(q, [timestamp |-> n])

\* lines 97-101 with the filter of line 90 run again after the timer
ResumeQueueRepruned(t) == filter(requestQueue, clock)

\* lines 97-101: the queue the continuation after the timer pushes to
ResumeQueue(t) == requestQueue

\* line 58: the cache-busting parameter
NoCacheParam(ms, rnd) ==
    [name |-> "no-cache-please", value |-> <<ms, "~", rnd>>]

NoAdm ==
    [valid |-> FALSE, now |-> 0, before |-> <<>>, pruned |-> <<>>,
     compared |-> 0, suspended |-> FALSE, wait |-> 0, pushed |-> FALSE,
     timestamp |-> 0, at |-> 0, after |-> <<>>]

\* line 58 with searchParams.set: the earlier value is replaced
setNoCache(u, ms, rnd) ==
    LET other(prm) == prm.name # "no-cache-please"
    IN  [u EXCEPT !.params = Append(SelectSeq(u.params, other), NoCacheParam(ms, rnd))]

\* line 58: url.searchParams.append("no-cache-please", ...) on the call's
\* URL object
appendNoCache(u, ms, rnd) ==
    [u EXCEPT !.params = Append(u.params, NoCacheParam(ms, rnd))]

\* lines 58-65 after rateLimit has returned: the parameter is appended and
\* the URL is fetched; reqs are the URLs the logical call fetched before
Fetch(t, u, reqs, rnd) ==
    /\ url' = [url EXCEPT ![t] = appendNoCache(u, clock, rnd)]
    /\ requests' = [requests EXCEPT ![t] = Append(reqs, appendNoCache(u, clock, rnd))]
    /\ pc' = [pc EXCEPT ![t] = "fetching"]

\* lines 56-57 and 86-102 up to the first suspension: get(u, r) called by t
get(t, u, r, reqs) ==
    LET n == clock
        pruned == filter(requestQueue, n)
        seen == [NoAdm EXCEPT !.valid = TRUE, !.now = n, !.before = requestQueue,
                              !.pruned = pruned, !.compared = Len(pruned)]
    IN  /\ retryCount' = [retryCount EXCEPT ![t] = r]
        /\ now' = [now EXCEPT ![t] = n]
        /\ IF Suspends(pruned)
           THEN /\ requestQueue' = pruned
                /\ timeToWait' = [timeToWait EXCEPT ![t] = TimeToWait(pruned, n)]
                /\ pc' = [pc EXCEPT ![t] = "sleeping"]
                /\ url' = [url EXCEPT ![t] = u]
                /\ requests' = [requests EXCEPT ![t] = reqs]
                /\ adm' = [adm EXCEPT ![t] =
                            [seen EXCEPT !.suspended = TRUE,
                                         !.wait = TimeToWait(pruned, n)]]
                /\ UNCHANGED admitted
           ELSE /\ requestQueue' = push(pruned, n)
                /\ timeToWait' = [timeToWait EXCEPT ![t] = 0]
                /\ adm' = [adm EXCEPT ![t] =
                            [seen EXCEPT !.pushed = TRUE, !.timestamp = n,
                                         !.at = clock,
                                         !.after = push(pruned, n)]]
                /\ admitted' = Append(admitted, clock)
                /\ \E rnd \in draws : Fetch(t, u, reqs, rnd)

\* line 67 with `retryCount >= 0`: one retry too many
ShouldRetryOffByOne(status, r) == status = GatewayTimeout /\ r >= 0

\* line 67 retrying every server error
ShouldRetryServerError(status, r) == status >= 500 /\ r > 0

\* line 67
ShouldRetry(status, r) == status = GatewayTimeout /\ r > 0

\* what a fetch yields: a Response, or a rejection with a transport error
Response(status) == [kind |-> "response", status |-> status]
Failure(e) == [kind |-> "error", error |-> e]

(* ------------------------------ actions ------------------------------- *)
\* an endpoint method (lines 109-292) builds its URL and calls get(url),
\* retryCount 3 by default; get's own contract is for any retryCount
CallWith(t, rs) ==
    /\ t \in callers
    /\ pc[t] \in {"idle", "returned", "thrown"}
    /\ calls[t] < MaxCalls
    /\ \E m \in methods, r \in rs :
          /\ budget' = [budget EXCEPT ![t] = r]
          /\ get(t, EndpointUrl(m), r, <<>>)
    /\ calls' = [calls EXCEPT ![t] = calls[t] + 1]
    /\ outcomes' = [outcomes EXCEPT ![t] = <<>>]
    /\ result' = [result EXCEPT ![t] = [kind |-> "none"]]
    /\ UNCHANGED <<options, serverStr, maxRequestsPerWindow, windowSize, clock,
                   callers, methods, statuses, draws>>

Call(t) == CallWith(t, 0..MaxRetries)

\* lines 97-101 and 58-65: the timer fires, the record is pushed, the
\* request is sent
Wake(t) ==
    /\ pc[t] = "sleeping"
    /\ clock >= now[t] + timeToWait[t]
    /\ requestQueue' = push(ResumeQueue(t), now[t])
    /\ adm' = [adm EXCEPT ![t] =
                [adm[t] EXCEPT !.pushed = TRUE, !.timestamp = now[t],
                               !.at = clock,
                               !.after = push(ResumeQueue(t), now[t])]]
    /\ admitted' = Append(admitted, clock)
    /\ \E rnd \in draws : Fetch(t, url[t], requests[t], rnd)
    /\ UNCHANGED <<options, serverStr, maxRequestsPerWindow, windowSize, clock,
                   callers, methods, statuses, draws,
                   now, timeToWait, retryCount, budget, calls,
                   outcomes, result>>

\* lines 61-72: the fetch resolves with a response
Respond(t) ==
    /\ pc[t] = "fetching"
    /\ \E status \in statuses :
          /\ outcomes' = [outcomes EXCEPT ![t] = Append(outcomes[t], Response(status))]
          /\ IF ShouldRetry(status, retryCount[t])
             THEN /\ get(t, url[t], retryCount[t] - 1, requests[t])
                  /\ UNCHANGED result
             ELSE /\ pc' = [pc EXCEPT ![t] = "returned"]
                  /\ result' = [result EXCEPT ![t] = Response(status)]
                  /\ UNCHANGED <<requestQueue, now, timeToWait, retryCount, url,
                                 requests, adm, admitted>>
    /\ UNCHANGED <<options, serverStr, maxRequestsPerWindow, windowSize, clock,
                   callers, methods, statuses, draws, budget,
                   calls>>

\* lines 73-75: the fetch rejects; the catch rethrows the same error
Fail(t) ==
    /\ pc[t] = "fetching"
    /\ \E e \in TransportFailures :
          /\ outcomes' = [outcomes EXCEPT ![t] = Append(outcomes[t], Failure(e))]
          /\ result' = [result EXCEPT ![t] = Failure(e)]
    /\ pc' = [pc EXCEPT ![t] = "thrown"]
    /\ UNCHANGED <<options, serverStr, maxRequestsPerWindow, windowSize,
                   requestQueue, clock, callers, methods, statuses, draws,
                   now, timeToWait,
                   retryCount, budget, url, calls, requests, adm, admitted>>

\* a millisecond passes; a due timer fires before the next one does
Tick ==
    /\ clock < MaxTime
    /\ \A t \in Tasks : pc[t] = "sleeping" => clock < now[t] + timeToWait[t]
    /\ clock' = clock + 1
    /\ UNCHANGED <<options, serverStr, maxRequestsPerWindow, windowSize,
                   requestQueue, callers, methods, statuses, draws, pc, now, timeToWait,
                   retryCount, budget, url, calls, requests, outcomes, result,
                   adm, admitted>>

Next ==
    \/ \E t \in Tasks : Call(t)
    \/ \E t \in Tasks : Wake(t)
    \/ \E t \in Tasks : Respond(t)
    \/ \E t \in Tasks : Fail(t)
    \/ Tick

(* --------------------------- specifications --------------------------- *)
\* the state after `new EarthMC(o)`, with the tasks cs calling the methods ms
Constructed(o, cs, ms, ss, ds) ==
    /\ options = o
    /\ serverStr = constructor(o).serverStr
    /\ maxRequestsPerWindow = constructor(o).maxRequestsPerWindow
    /\ windowSize = constructor(o).windowSize
    /\ requestQueue = <<>>
    /\ clock = 0
    /\ callers = cs
    /\ methods = ms
    /\ statuses = ss
    /\ draws = ds
    /\ pc = [t \in Tasks |-> "idle"]
    /\ now = [t \in Tasks |-> 0]
    /\ timeToWait = [t \in Tasks |-> 0]
    /\ retryCount = [t \in Tasks |-> 0]
    /\ budget = [t \in Tasks |-> 0]
    /\ url = [t \in Tasks |-> EndpointUrl("server")]
    /\ calls = [t \in Tasks |-> 0]
    /\ requests = [t \in Tasks |-> <<>>]
    /\ outcomes = [t \in Tasks |-> <<>>]
    /\ result = [t \in Tasks |-> [kind |-> "none"]]
    /\ adm = [t \in Tasks |-> NoAdm]
    /\ admitted = <<>>

\* several cooperative tasks share one session
Init ==
    \E q \in 1..MaxQuota, w \in 2..MaxWindow :
        Constructed([server |-> Absent, maxRequestsPerWindow |-> q, windowSize |-> w],
                    Tasks, {"players"}, {200, GatewayTimeout}, {"0.12"})

Spec == Init /\ [][Next]_vars

\* a single caller, every call awaited before the next
InitSeq ==
    \E q \in 1..MaxQuota, w \in 2..MaxWindow :
        Constructed([server |-> Absent, maxRequestsPerWindow |-> q, windowSize |-> w],
                    {1}, {"players"}, Statuses, RandomDraws)

SeqSpec == InitSeq /\ [][Next]_vars

\* a single caller of a session constructed with any `server` option, calling
\* any endpoint method
InitUrl ==
    \E s \in ServerOptions, q \in 1..MaxQuota, w \in 2..MaxWindow :
        Constructed([server |-> s, maxRequestsPerWindow |-> q, windowSize |-> w],
                    {1}, Methods, {200, GatewayTimeout}, {"0.12"})

UrlSpec == InitUrl /\ [][Next]_vars

\* line 97: time goes on passing while a timer is pending, also beyond
\* MaxTime, until the timer is due
LateTick ==
    /\ clock >= MaxTime
    /\ \E t \in Tasks : pc[t] = "sleeping"
    /\ \A t \in Tasks : pc[t] = "sleeping" => clock < now[t] + timeToWait[t]
    /\ clock' = clock + 1
    /\ UNCHANGED <<options, serverStr, maxRequestsPerWindow, windowSize,
                   requestQueue, callers, methods, statuses, draws, pc, now,
                   timeToWait, retryCount, budget, url, calls, requests,
                   outcomes, result, adm, admitted>>

\* the steps of Next, with the retry budgets of the calls up to LiveRetries,
\* and LateTick
NextLive ==
    \/ \E t \in Tasks : CallWith(t, 0..LiveRetries)
    \/ \E t \in Tasks : Wake(t)
    \/ \E t \in Tasks : Respond(t)
    \/ \E t \in Tasks : Fail(t)
    \/ Tick
    \/ LateTick

\* time passes, a due timer fires (line 97), a fetch settles (line 61);
\* nothing obliges a caller to call
Fairness ==
    /\ WF_vars(Tick \/ LateTick)
    /\ \A t \in Tasks : WF_vars(Wake(t))
    /\ \A t \in Tasks : WF_vars(Respond(t) \/ Fail(t))

\* several cooperative tasks share one session; timers fire and network
\* attempts complete
LiveSpec == Init /\ [][NextLive]_vars /\ Fairness

(* ------------------------------- claims ------------------------------- *)
\* the smallest timestamp of a non-empty queue
Oldest(q) ==
    CHOOSE x \in {q[i].timestamp : i \in 1..Len(q)} :
        \A i \in 1..Len(q) : x <= q[i].timestamp

\* the tasks whose latest rateLimit call has completed
Admitted == {t \in Tasks : adm[t].valid /\ adm[t].pushed}

\* C1: under a single sequential caller no interval of duration windowSize
\* holds more than maxRequestsPerWindow admissions: any admission and the
\* maxRequestsPerWindow-th one after it are at least windowSize apart.
QuotaInvariant ==
    \A i \in 1..Len(admitted) :
        i + maxRequestsPerWindow <= Len(admitted)
            => admitted[i + maxRequestsPerWindow] - admitted[i] >= windowSize

\* C2: the record a rateLimit call pushes carries the time of admission,
\* now + timeToWait when it suspended and now when it did not.
RecordCarriesAdmissionTime ==
    \A t \in Admitted : adm[t].timestamp = adm[t].now + adm[t].wait

\* C3: a call that finds the pruned queue at quota suspends for exactly
\* t0 + windowSize - now, t0 the oldest surviving record, a wait in
\* 1..windowSize; a call that finds it under quota does not suspend.
WaitCorrectness ==
    \A t \in Tasks :
        adm[t].valid =>
            IF Len(adm[t].pruned) >= maxRequestsPerWindow
            THEN /\ adm[t].suspended
                 /\ adm[t].wait = Oldest(adm[t].pruned) + windowSize - adm[t].now
                 /\ adm[t].wait > 0
                 /\ adm[t].wait <= windowSize
            ELSE /\ ~adm[t].suspended
                 /\ adm[t].wait = 0

\* every fetch of t's logical call so far was answered 504
AllGatewayTimeout(t) ==
    \A i \in 1..Len(outcomes[t]) : outcomes[t][i] = Response(GatewayTimeout)

\* the last outcome of t's logical call
LastOutcome(t) == outcomes[t][Len(outcomes[t])]

\* C4: a logical get(url, r) never fetches more than r + 1 times, and one
\* answered 504 every time fetches exactly r + 1 times and then returns the
\* last 504 response as its result, not as an error.
RetryBound ==
    \A t \in Tasks :
        /\ Len(requests[t]) <= budget[t] + 1
        /\ AllGatewayTimeout(t) /\ Len(outcomes[t]) = budget[t] + 1
              => /\ pc[t] = "returned"
                 /\ result[t] = Response(GatewayTimeout)
        /\ AllGatewayTimeout(t) /\ Len(outcomes[t]) < budget[t] + 1
              => pc[t] \notin {"returned", "thrown"}

RetryBoundWitness ==
    \E t \in Tasks :
        /\ budget[t] = MaxRetries
        /\ pc[t] = "returned"
        /\ AllGatewayTimeout(t)
        /\ Len(requests[t]) = MaxRetries + 1

\* C5: only a 504 answer with retries left is followed by another fetch; any
\* other status ends the call with that response as its result, a transport
\* failure ends it with that failure thrown.
RetryTrigger ==
    \A t \in Tasks :
        /\ \A i \in 1..(Len(outcomes[t]) - 1) :
              outcomes[t][i] = Response(GatewayTimeout)
        /\ Len(requests[t]) =
              Len(outcomes[t]) + (IF pc[t] = "fetching" THEN 1 ELSE 0)
        /\ Len(requests[t]) - 1 <= budget[t]
        /\ pc[t] = "returned"
              => /\ LastOutcome(t).kind = "response"
                 /\ result[t] = LastOutcome(t)
        /\ pc[t] = "thrown"
              => /\ LastOutcome(t).kind = "error"
                 /\ result[t] = LastOutcome(t)
        /\ outcomes[t] # <<>> /\ LastOutcome(t) # Response(GatewayTimeout)
              => pc[t] \in {"returned", "thrown"}

RetryTriggerWitness ==
    \E t \in Tasks :
        /\ budget[t] > 0
        /\ pc[t] = "returned"
        /\ outcomes[t] = <<Response(500)>>
        /\ Len(requests[t]) = 1

\* C6: every URL a session fetches has the `server` option as its {server}
\* segment, the default only when the option was omitted.
ServerOptionSelects ==
    \A t \in Tasks : \A i \in 1..Len(requests[t]) :
        requests[t][i].server =
            IF options.server = Absent THEN DefaultServer ELSE options.server

\* how many times the record r occurs in the queue q
Count(q, r) == Cardinality({i \in 1..Len(q) : q[i] = r})

\* p is q with some records left out, the others in their order
RECURSIVE IsSubSeq(_, _)
IsSubSeq(p, q) ==
    IF p = <<>> THEN TRUE
    ELSE IF q = <<>> THEN FALSE
    ELSE IF Head(p) = Head(q) THEN IsSubSeq(Tail(p), Tail(q))
    ELSE IsSubSeq(p, Tail(q))

\* C7: a rateLimit call at time now removes, before the quota check, every
\* record with timestamp + windowSize <= now and keeps every other record in
\* its order; the number compared with the quota is the number of records
\* kept, each of which has now - timestamp < windowSize.
PruningExact ==
    \A t \in Tasks :
        adm[t].valid =>
            LET b == adm[t].before
                p == adm[t].pruned
                n == adm[t].now
            IN  /\ \A i \in 1..Len(b) :
                      Count(p, b[i]) =
                          IF b[i].timestamp + windowSize <= n THEN 0
                          ELSE Count(b, b[i])
                /\ IsSubSeq(p, b)
                /\ \A i \in 1..Len(p) : n - p[i].timestamp < windowSize
                /\ adm[t].compared = Len(p)
                /\ adm[t].suspended <=> adm[t].compared >= maxRequestsPerWindow
                /\ adm[t].pushed /\ ~adm[t].suspended
                      => /\ Len(adm[t].after) = Len(p) + 1
                         /\ SubSeq(adm[t].after, 1, Len(p)) = p

PruningWitness ==
    \E t \in Tasks :
        /\ adm[t].valid
        /\ \E i \in 1..Len(adm[t].before) :
              adm[t].before[i].timestamp + windowSize = adm[t].now
        /\ Len(adm[t].pruned) >= 1
        /\ Len(adm[t].pruned) < Len(adm[t].before)

\* t2 calls rateLimit at the instant at which t1 was admitted without
\* waiting, right after it: the two calls race on an under-quota queue
RaceScenario(t1, t2) ==
    /\ t1 # t2
    /\ adm[t1].valid /\ adm[t1].pushed /\ ~adm[t1].suspended
    /\ adm[t2].valid
    /\ adm[t2].now = adm[t1].now
    /\ adm[t2].before = adm[t1].after

\* C8 as stated: of two tasks racing on an under-quota queue the second
\* passes without waiting as the first did, whatever the first has pushed.
UnderQuotaRace ==
    \A t1, t2 \in Tasks : RaceScenario(t1, t2) => ~adm[t2].suspended

\* C8, amended: a call that finds the queue under quota pushes its record in
\* the step in which it looked, so that a call that does not wait leaves at
\* most maxRequestsPerWindow records in the queue, and the second of two
\* racing calls counts the record of the first.
NoUnderQuotaOvershoot ==
    /\ \A t \in Tasks :
          adm[t].valid /\ adm[t].pushed /\ ~adm[t].suspended
              => Len(adm[t].after) <= maxRequestsPerWindow
    /\ \A t1, t2 \in Tasks :
          RaceScenario(t1, t2) => adm[t2].compared = adm[t1].compared + 1

RaceWitness ==
    \E t1, t2 \in Tasks :
        /\ RaceScenario(t1, t2)
        /\ Len(adm[t1].after) = maxRequestsPerWindow
        /\ adm[t2].suspended

\* the no-cache-please values a URL carries, in order
NoCacheValues(u) ==
    LET isNoCache(prm) == prm.name = "no-cache-please"
        ps == SelectSeq(u.params, isNoCache)
    IN  [i \in 1..Len(ps) |-> ps[i].value]

\* the value generated for the attempt that fetched u
Generated(u) == NoCacheValues(u)[Len(NoCacheValues(u))]

\* C9 as stated: two attempts of one logical call carry different
\* no-cache-please values, and their URLs differ.
CacheBustValuesDiffer ==
    \A t \in Tasks : \A i, j \in 1..Len(requests[t]) :
        i < j => /\ Generated(requests[t][i]) # Generated(requests[t][j])
                 /\ requests[t][i] # requests[t][j]

\* C9, amended: each attempt appends a value to the call's one URL object,
\* so the k-th attempt's URL carries k values, those of the earlier attempts
\* first, and any two attempts' URLs differ.
CacheBustUrlsDistinct ==
    \A t \in Tasks : \A j \in 1..Len(requests[t]) :
        /\ Len(NoCacheValues(requests[t][j])) = j
        /\ \A i \in 1..(j - 1) :
              /\ requests[t][i] # requests[t][j]
              /\ NoCacheValues(requests[t][i]) =
                    SubSeq(NoCacheValues(requests[t][j]), 1, i)

CacheBustWitness ==
    \E t \in Tasks :
        /\ Len(requests[t]) >= 2
        /\ Generated(requests[t][1]) = Generated(requests[t][2])

\* C10: a task woken by its timer pushes one record onto the queue as it
\* is, without pruning it or checking the quota again, and goes on to fetch.
WakeAppendsOnly ==
    [][\A t \in Tasks :
          pc[t] = "sleeping" /\ pc'[t] # "sleeping"
              => /\ pc'[t] = "fetching"
                 /\ Len(requestQueue') = Len(requestQueue) + 1
                 /\ SubSeq(requestQueue', 1, Len(requestQueue)) = requestQueue
                 /\ Len(admitted') = Len(admitted) + 1]_vars

\* two tasks that slept at the same time on a queue at quota 1 have both
\* been admitted at the same instant
ConcurrentOvershoot ==
    \E t1, t2 \in Tasks :
        /\ t1 # t2
        /\ maxRequestsPerWindow = 1
        /\ adm[t1].suspended /\ adm[t1].pushed
        /\ adm[t2].suspended /\ adm[t2].pushed
        /\ adm[t1].now < adm[t2].at /\ adm[t2].now < adm[t1].at
        /\ adm[t1].at = adm[t2].at
        /\ \E i \in 1..Len(admitted) :
              /\ i + maxRequestsPerWindow <= Len(admitted)
              /\ admitted[i + maxRequestsPerWindow] - admitted[i] < windowSize

\* C11: in every reachable state, whatever the interleaving of the tasks,
\* the records of requestQueue are in non-decreasing timestamp order, so that
\* requestQueue[0] is the oldest record and every pruning pass has removed a
\* prefix of the queue it found.
QueueOrdered ==
    /\ \A i, j \in 1..Len(requestQueue) :
          i < j => requestQueue[i].timestamp <= requestQueue[j].timestamp
    /\ \A t \in Tasks :
          adm[t].valid =>
              adm[t].pruned =
                  SubSeq(adm[t].before,
                         Len(adm[t].before) - Len(adm[t].pruned) + 1,
                         Len(adm[t].before))

\* the step sends a network attempt of t: t starts a fetch
Attempt(t) ==
    /\ pc'[t] = "fetching"
    /\ pc[t] # "fetching" \/ Len(outcomes'[t]) > Len(outcomes[t])

\* C12: every network attempt of get, the first and each 504 retry, comes
\* with its own completed rateLimit call, which appends exactly one record:
\* the step that starts the k-th fetch of a logical call makes its k-th
\* admission and leaves the queue one record longer than the queue it pushed
\* to; no other step admits or adds a record, and the queue loses records
\* only in the pruning pass of a rateLimit call.
AttemptConsumesAdmission ==
    [][/\ \A t \in Tasks :
             Attempt(t) =>
                 LET base == IF pc[t] = "sleeping" THEN requestQueue
                             ELSE adm'[t].pruned
                     sofar == IF pc[t] \in {"sleeping", "fetching"}
                              THEN Len(requests[t]) ELSE 0
                 IN  /\ adm'[t].valid /\ adm'[t].pushed /\ adm'[t].at = clock
                     /\ Len(admitted') = Len(admitted) + 1
                     /\ Len(requests'[t]) = sofar + 1
                     /\ Len(requestQueue') = Len(base) + 1
                     /\ SubSeq(requestQueue', 1, Len(base)) = base
       /\ (\A t \in Tasks : ~Attempt(t)) =>
             /\ admitted' = admitted
             /\ requests' = requests \/ \E t \in Tasks : requests'[t] = <<>>
             /\ IsSubSeq(requestQueue', requestQueue)
       /\ Len(requestQueue') < Len(requestQueue)
             => \E t \in Tasks :
                   /\ pc[t] # "sleeping"
                   /\ pc'[t] \in {"sleeping", "fetching"}
                   /\ adm'[t].valid
                   /\ adm'[t].now = clock
                   /\ adm'[t].before = requestQueue
                   /\ Len(adm'[t].pruned) < Len(requestQueue)]_vars

\* a logical call that made several attempts has returned
AttemptWitness ==
    \E t \in Tasks :
        /\ pc[t] = "returned"
        /\ Len(requests[t]) >= 3
        /\ adm[t].pushed
        /\ Len(admitted) >= Len(requests[t])
        /\ Len(requestQueue) < Len(admitted)

\* C13: a rateLimit call suspends at most once, for at least 1 and at most
\* windowSize milliseconds, and once suspended it is eventually admitted with
\* its record pushed; a get call whose fetches all settle eventually returns
\* a response or throws a failure.
BoundedSuspension ==
    /\ [](\A t \in Tasks :
             /\ adm[t].valid /\ adm[t].suspended
                   => /\ adm[t].wait >= 1
                      /\ adm[t].wait <= windowSize
                      /\ adm[t].pushed => adm[t].at - adm[t].now <= windowSize
             /\ adm[t].valid /\ ~adm[t].suspended
                   => adm[t].pushed /\ adm[t].at = adm[t].now)
    /\ [][\A t \in Tasks :
             pc[t] = "sleeping"
                 => \/ pc'[t] = "sleeping" /\ adm'[t] = adm[t]
                    \/ /\ pc'[t] = "fetching"
                       /\ adm'[t].pushed
                       /\ adm'[t].now = adm[t].now]_vars
    /\ \A t \in Tasks :
          (pc[t] = "sleeping") ~> (pc[t] # "sleeping" /\ adm[t].pushed)
    /\ \A t \in Tasks :
          (pc[t] \in {"sleeping", "fetching"}) ~> (pc[t] \in {"returned", "thrown"})

\* a call that suspended for the whole window, past MaxTime, has returned
SuspensionWitness ==
    \E t \in Tasks :
        /\ pc[t] = "returned"
        /\ adm[t].suspended /\ adm[t].pushed
        /\ adm[t].wait = windowSize
        /\ adm[t].at > MaxTime

=============================================================================
